---- MODULE Spec2Model ----
(***************************************************************************)
(* Digital-logic network simulator: Simulation (simulation.js), the node   *)
(* classes InputPoint / OutputPoint (io.js) and LogicGate / AndGate /      *)
(* NotGate / NAndGate (gates.js).                                          *)
(*                                                                         *)
(* Every method is a function on a heap record h that holds the fields of  *)
(* all node objects.  A JavaScript exception is the field h.err: once it   *)
(* is set every enclosing call returns without executing its remaining     *)
(* statements, so the heap keeps the writes made before the throw.         *)
(***************************************************************************)
EXTENDS Integers, Sequences, FiniteSets, TLC

VARIABLES nodes, components, inputPoints, outputPoints, gates,
          outputs, inputs, input, value, outputValue, last, pre

vars == <<nodes, components, inputPoints, outputPoints, gates,
          outputs, inputs, input, value, outputValue, last, pre>>

HIGH == 1
LOW == 0
NULL == "null"

\* ------------------------------------------------------------------ bounds
\* Call-stack limit of the JavaScript engine, in frames: a call chain that
\* needs more frames ends in a RangeError.  removeOutput and removeInput
\* call each other without a test that could stop them, and from the third
\* frame on they no longer change the heap, so the outcome is the same for
\* every limit; the longest chain that ends by itself is three frames deep.
MaxCallDepth == 6
\* numInputs handed to the NAndGate constructor.
NumInputs == 3

\* ------------------------------------------------------ the node objects
\* InputA2 is a second InputPoint object constructed with the display name
\* of InputA.
InputNames == {"InputA", "InputB", "InputA2"}
OutputNames == {"OutputX"}
AndNames == {"And1"}
NotNames == {"Not1"}
NAndNames == {"NAnd1"}
GateNames == AndNames \cup NotNames \cup NAndNames
Universe == InputNames \cup GateNames \cup OutputNames

\* The sets of objects a collaborator constructs for one simulation.
Circuits ==
  { {"InputA", "InputB", "Not1"},
    {"InputA", "InputB", "And1"},
    {"InputA", "InputB", "NAnd1"},
    {"InputA", "InputB", "OutputX"},
    {"InputA", "Not1", "OutputX"},
    {"Not1", "And1"},
    {"InputA", "InputA2", "And1"} }

\* The name argument of the constructors: the display name in this.name.
name(n) == IF n = "InputA2" THEN "InputA" ELSE n

Kind(n) ==
  CASE n \in InputNames -> "InputPoint"
    [] n \in OutputNames -> "OutputPoint"
    [] n \in AndNames -> "AndGate"
    [] n \in NotNames -> "NotGate"
    [] n \in NAndNames -> "NAndGate"

IsGate(n) == n \in GateNames

maxInputs(g) ==
  CASE g \in AndNames -> 2
    [] g \in NotNames -> 1
    [] g \in NAndNames -> NumInputs

\* typeof x.m === 'function'
HasAddOutput(n) == n \in InputNames \cup GateNames
HasRemoveOutput(n) == n \in InputNames \cup GateNames
HasAddInput(n) == n \in GateNames \cup OutputNames
HasRemoveInput(n) == n \in GateNames \cup OutputNames
HasEvaluate(n) == n \in GateNames
\* destination.inputs is an array only on a LogicGate; an OutputPoint has
\* the field input and no field inputs.
HasInputsField(n) == n \in GateNames

\* ------------------------------------------------------- array helpers
Includes(s, x) == \E i \in 1..Len(s) : s[i] = x
Filter(s, x) == SelectSeq(s, LAMBDA y : y # x)
Range(s) == { s[i] : i \in 1..Len(s) }

Throw(h, e) == [h EXCEPT !.err = e]
Ok(h) == h.err = "none"

\* ------------------------------------------------------------ node methods
\* getOutput(): InputPoint.value, LogicGate.outputValue, OutputPoint.value
getOutput(h, n) == IF IsGate(n) THEN h.outputValue[n] ELSE h.value[n]

\* OutputPoint.update() that assigns nothing.
updateKeepValue(h, o) == h

\* OutputPoint.update()
update(h, o) ==
  IF h.input[o] # NULL
  THEN [h EXCEPT !.value[o] = getOutput(h, h.input[o])]
  ELSE [h EXCEPT !.value[o] = LOW]

RECURSIVE addOutput(_, _, _, _)
RECURSIVE addInput(_, _, _, _)
RECURSIVE removeOutput(_, _, _, _)
RECURSIVE removeInput(_, _, _, _)

\* LogicGate.addInput(source) with the capacity test off by one
\* (this.inputs.length <= this.maxInputs).
gateAddInputOffByOne(h, g, source, d) ==
  IF Len(h.inputs[g]) <= maxInputs(g)
  THEN IF ~Includes(h.inputs[g], source)
       THEN LET h1 == [h EXCEPT !.inputs[g] = Append(@, source)]
            IN IF HasAddOutput(source) THEN addOutput(h1, source, g, d - 1) ELSE h1
       ELSE h
  ELSE [h EXCEPT !.reported = TRUE]

\* LogicGate.addInput(source)
gateAddInput(h, g, source, d) ==
  IF Len(h.inputs[g]) < maxInputs(g)
  THEN IF ~Includes(h.inputs[g], source)
       THEN LET h1 == [h EXCEPT !.inputs[g] = Append(@, source)]
            IN IF HasAddOutput(source) THEN addOutput(h1, source, g, d - 1) ELSE h1
       ELSE h
  ELSE [h EXCEPT !.reported = TRUE]

\* OutputPoint.addInput(source)
pointAddInput(h, o, source, d) ==
  LET old == h.input[o]
      h1 == IF old # NULL /\ old # source
            THEN LET hw == [h EXCEPT !.reported = TRUE]
                 IN IF HasRemoveOutput(old) THEN removeOutput(hw, old, o, d - 1) ELSE hw
            ELSE h
  IN IF ~Ok(h1) THEN h1
     ELSE LET h2 == [h1 EXCEPT !.input[o] = source]
              h3 == IF HasAddOutput(source) /\ ~Includes(h2.outputs[source], o)
                    THEN addOutput(h2, source, o, d - 1)
                    ELSE h2
          IN IF ~Ok(h3) THEN h3 ELSE update(h3, o)

\* target.addInput(source): one more frame on the call stack
addInput(h, t, source, d) ==
  IF d = 0 THEN Throw(h, "RangeError")
  ELSE IF IsGate(t) THEN gateAddInput(h, t, source, d)
  ELSE pointAddInput(h, t, source, d)

\* InputPoint.addOutput(destination) without the test
\* this.outputs.includes(destination).
pointAddOutputNoTest(h, p, destination, d) ==
  LET h1 == [h EXCEPT !.outputs[p] = Append(@, destination)]
  IN IF HasAddInput(destination)
     THEN IF ~HasInputsField(destination)
          THEN Throw(h1, "TypeError")
          ELSE IF ~Includes(h1.inputs[destination], p)
               THEN addInput(h1, destination, p, d - 1)
               ELSE h1
     ELSE h1

\* InputPoint.addOutput(destination).  Reading destination.inputs.includes
\* on an object without the field inputs raises a TypeError.
pointAddOutput(h, p, destination, d) ==
  IF Includes(h.outputs[p], destination) THEN h
  ELSE LET h1 == [h EXCEPT !.outputs[p] = Append(@, destination)]
       IN IF HasAddInput(destination)
          THEN IF ~HasInputsField(destination)
               THEN Throw(h1, "TypeError")
               ELSE IF ~Includes(h1.inputs[destination], p)
                    THEN addInput(h1, destination, p, d - 1)
                    ELSE h1
          ELSE h1

\* LogicGate.addOutput(destination)
gateAddOutput(h, g, destination, d) ==
  IF Includes(h.outputs[g], destination) THEN h
  ELSE LET h1 == [h EXCEPT !.outputs[g] = Append(@, destination)]
       IN IF HasAddInput(destination)
          THEN IF ~HasInputsField(destination)
               THEN Throw(h1, "TypeError")
               ELSE IF ~Includes(h1.inputs[destination], g)
                    THEN addInput(h1, destination, g, d - 1)
                    ELSE h1
          ELSE h1

\* source.addOutput(destination): one more frame on the call stack
addOutput(h, n, destination, d) ==
  IF d = 0 THEN Throw(h, "RangeError")
  ELSE IF IsGate(n) THEN gateAddOutput(h, n, destination, d)
  ELSE pointAddOutput(h, n, destination, d)

\* InputPoint.removeOutput(destination)
pointRemoveOutput(h, p, destination, d) ==
  LET h1 == [h EXCEPT !.outputs[p] = Filter(@, destination)]
  IN IF HasRemoveInput(destination)
     THEN removeInput(h1, destination, p, d - 1)
     ELSE h1

\* LogicGate.removeOutput(destination)
gateRemoveOutput(h, g, destination, d) ==
  LET h1 == [h EXCEPT !.outputs[g] = Filter(@, destination)]
  IN IF HasRemoveInput(destination)
     THEN removeInput(h1, destination, g, d - 1)
     ELSE h1

\* source.removeOutput(destination): one more frame on the call stack
removeOutput(h, n, destination, d) ==
  IF d = 0 THEN Throw(h, "RangeError")
  ELSE IF IsGate(n) THEN gateRemoveOutput(h, n, destination, d)
  ELSE pointRemoveOutput(h, n, destination, d)

\* LogicGate.removeInput(source) that leaves this.inputs as it is.
gateRemoveInputKeep(h, g, source, d) ==
  IF HasRemoveOutput(source) THEN removeOutput(h, source, g, d - 1) ELSE h

\* LogicGate.removeInput(source)
gateRemoveInput(h, g, source, d) ==
  LET h1 == [h EXCEPT !.inputs[g] = Filter(@, source)]
  IN IF HasRemoveOutput(source) THEN removeOutput(h1, source, g, d - 1) ELSE h1

\* OutputPoint.removeInput(): the argument is ignored
pointRemoveInput(h, o, d) ==
  LET h1 == IF h.input[o] # NULL /\ HasRemoveOutput(h.input[o])
            THEN removeOutput(h, h.input[o], o, d - 1)
            ELSE h
  IN IF ~Ok(h1) THEN h1
     ELSE [h1 EXCEPT !.input[o] = NULL, !.value[o] = LOW]

\* target.removeInput(source): one more frame on the call stack
removeInput(h, t, source, d) ==
  IF d = 0 THEN Throw(h, "RangeError")
  ELSE IF IsGate(t) THEN gateRemoveInput(h, t, source, d)
  ELSE pointRemoveInput(h, t, d)

\* ---------------------------------------------------------- gate evaluation
\* LogicGate.getInputValue(index), index counted from 0
getInputValue(h, g, index) ==
  IF index < Len(h.inputs[g]) /\ h.inputs[g][index + 1] # NULL
  THEN getOutput(h, h.inputs[g][index + 1])
  ELSE LOW

\* AndGate.evaluate() with || in place of && between the two tests.
andEvaluateOr(h, g) ==
  IF Len(h.inputs[g]) < maxInputs(g) THEN LOW
  ELSE IF getInputValue(h, g, 0) = HIGH \/ getInputValue(h, g, 1) = HIGH
       THEN HIGH ELSE LOW

\* AndGate.evaluate()
andEvaluate(h, g) ==
  IF Len(h.inputs[g]) < maxInputs(g) THEN LOW
  ELSE IF getInputValue(h, g, 0) = HIGH /\ getInputValue(h, g, 1) = HIGH
       THEN HIGH ELSE LOW

\* NotGate.evaluate() with HIGH as the output of an unconnected gate.
notEvaluateUnconnectedHigh(h, g) ==
  IF Len(h.inputs[g]) < 1 THEN HIGH
  ELSE IF getInputValue(h, g, 0) = HIGH THEN LOW ELSE HIGH

\* NotGate.evaluate()
notEvaluate(h, g) ==
  IF Len(h.inputs[g]) < 1 THEN LOW
  ELSE IF getInputValue(h, g, 0) = HIGH THEN LOW ELSE HIGH

\* NAndGate.evaluate() that looks at the first input only.
nandEvaluateFirstOnly(h, g) ==
  IF Len(h.inputs[g]) = 0 THEN LOW
  ELSE IF getInputValue(h, g, 0) = LOW THEN LOW ELSE HIGH

\* NAndGate.evaluate()
nandEvaluate(h, g) ==
  IF Len(h.inputs[g]) = 0 THEN LOW
  ELSE IF \E i \in 0..(Len(h.inputs[g]) - 1) : getInputValue(h, g, i) = LOW
       THEN LOW ELSE HIGH

evaluate(h, g) ==
  [h EXCEPT !.outputValue[g] =
     CASE Kind(g) = "AndGate" -> andEvaluate(h, g)
       [] Kind(g) = "NotGate" -> notEvaluate(h, g)
       [] Kind(g) = "NAndGate" -> nandEvaluate(h, g)]

\* ------------------------------------------------------------- Simulation
\* this.gates.forEach(gate => ...) of propagate: evaluates the gates from
\* position k on, in list order; changed tells whether an output changed.
RECURSIVE evaluateGates(_, _, _)
evaluateGates(h, k, changed) ==
  IF k > Len(h.gates) THEN [h |-> h, changed |-> changed]
  ELSE LET g == h.gates[k]
           h1 == evaluate(h, g)
       IN evaluateGates(h1, k + 1,
                        changed \/ h1.outputValue[g] # h.outputValue[g])

\* this.outputPoints.forEach(outputPoint => outputPoint.update())
RECURSIVE updateOutputPoints(_, _)
updateOutputPoints(h, k) ==
  IF k > Len(h.outputPoints) THEN h
  ELSE updateOutputPoints(update(h, h.outputPoints[k]), k + 1)

\* An iteration cap one above the number of gates plus one.
maxIterationsPlusOne(h) == Len(h.gates) + 2

\* const maxIterations = this.gates.length + 1
maxIterations(h) == Len(h.gates) + 1

\* the for loop of propagate, from iteration i on
RECURSIVE propagateLoop(_, _)
propagateLoop(h, i) ==
  IF i >= maxIterations(h) THEN h
  ELSE LET r == evaluateGates(h, 1, FALSE)
           h1 == updateOutputPoints(r.h, 1)
           h2 == [h1 EXCEPT !.passes = @ + 1]
       IN IF ~r.changed /\ i > 0 THEN h2 ELSE propagateLoop(h2, i + 1)

\* A propagate() that takes each output point off this.outputPoints as it
\* updates it (while (this.outputPoints.length) this.outputPoints.shift()).
propagateShiftOutputPoints(h) ==
  [updateOutputPoints(propagateLoop([h EXCEPT !.calls = @ + 1], 0), 1)
     EXCEPT !.outputPoints = <<>>]

\* Simulation.propagate()
propagate(h) ==
  updateOutputPoints(propagateLoop([h EXCEPT !.calls = @ + 1], 0), 1)

\* component instanceof LogicGate: true of every gate object.
InstanceOfLogicGate(c) == IsGate(c)

\* component instanceof Object.getPrototypeOf(this.gates).constructor:
\* this.gates is an array, so the constructor is Array, and no node object
\* is an instance of Array.
InstanceOfGatesConstructor(c) == FALSE

\* A membership test that compares display names instead of objects.
componentsIncludesName(h, c) ==
  \E k \in 1..Len(h.components) : name(h.components[k]) = name(c)

\* this.components.includes(component): Array.prototype.includes compares
\* object identity.
componentsIncludes(h, c) == Includes(h.components, c)

\* Simulation.addComponent(component) followed by this.propagate().
addComponentPropagate(h, c) ==
  propagate(IF componentsIncludes(h, c) THEN h
            ELSE [h EXCEPT !.components = Append(@, c)])

\* Simulation.addComponent(component)
addComponent(h, c) ==
  IF componentsIncludes(h, c) THEN h
  ELSE LET h1 == [h EXCEPT !.components = Append(@, c)]
       IN IF Kind(c) = "InputPoint"
          THEN [h1 EXCEPT !.inputPoints = Append(@, c)]
          ELSE IF Kind(c) = "OutputPoint"
          THEN [h1 EXCEPT !.outputPoints = Append(@, c)]
          ELSE IF InstanceOfGatesConstructor(c)
          THEN IF HasEvaluate(c) THEN [h1 EXCEPT !.gates = Append(@, c)] ELSE h1
          ELSE h1

\* list.forEach(x => { if (x && typeof x.removeInput === 'function')
\* x.removeInput(component) }) over the array the loop started with
RECURSIVE forEachRemoveInput(_, _, _, _)
forEachRemoveInput(h, list, k, c) ==
  IF ~Ok(h) \/ k > Len(list) THEN h
  ELSE forEachRemoveInput(
         IF HasRemoveInput(list[k])
         THEN removeInput(h, list[k], c, MaxCallDepth)
         ELSE h,
         list, k + 1, c)

\* list.forEach(x => { if (x && typeof x.removeOutput === 'function')
\* x.removeOutput(component) })
RECURSIVE forEachRemoveOutput(_, _, _, _)
forEachRemoveOutput(h, list, k, c) ==
  IF ~Ok(h) \/ k > Len(list) THEN h
  ELSE forEachRemoveOutput(
         IF HasRemoveOutput(list[k])
         THEN removeOutput(h, list[k], c, MaxCallDepth)
         ELSE h,
         list, k + 1, c)

\* A removeComponent(component) that filters this.components and leaves an
\* input point in this.inputPoints.
removeComponentKeepInputPoint(h, c) ==
  LET h0 == [h EXCEPT !.components = Filter(@, c)]
  IN IF Kind(c) = "InputPoint"
     THEN LET h2 == forEachRemoveInput(h0, h0.outputs[c], 1, c)
          IN IF ~Ok(h2) THEN h2 ELSE [h2 EXCEPT !.outputs[c] = <<>>]
     ELSE IF Kind(c) = "OutputPoint"
     THEN LET h1 == [h0 EXCEPT !.outputPoints = Filter(@, c)]
              h2 == IF h1.input[c] # NULL /\ HasRemoveOutput(h1.input[c])
                    THEN removeOutput(h1, h1.input[c], c, MaxCallDepth)
                    ELSE h1
          IN IF ~Ok(h2) THEN h2 ELSE [h2 EXCEPT !.input[c] = NULL]
     ELSE IF HasEvaluate(c)
     THEN LET h1 == [h0 EXCEPT !.gates = Filter(@, c)]
              h2 == forEachRemoveOutput(h1, h1.inputs[c], 1, c)
          IN IF ~Ok(h2) THEN h2
             ELSE LET h3 == [h2 EXCEPT !.inputs[c] = <<>>]
                      h4 == forEachRemoveInput(h3, h3.outputs[c], 1, c)
                  IN IF ~Ok(h4) THEN h4 ELSE [h4 EXCEPT !.outputs[c] = <<>>]
     ELSE h0

\* Simulation.removeComponent(component)
removeComponent(h, c) ==
  LET h0 == [h EXCEPT !.components = Filter(@, c)]
  IN IF Kind(c) = "InputPoint"
     THEN LET h1 == [h0 EXCEPT !.inputPoints = Filter(@, c)]
              h2 == forEachRemoveInput(h1, h1.outputs[c], 1, c)
          IN IF ~Ok(h2) THEN h2 ELSE [h2 EXCEPT !.outputs[c] = <<>>]
     ELSE IF Kind(c) = "OutputPoint"
     THEN LET h1 == [h0 EXCEPT !.outputPoints = Filter(@, c)]
              h2 == IF h1.input[c] # NULL /\ HasRemoveOutput(h1.input[c])
                    THEN removeOutput(h1, h1.input[c], c, MaxCallDepth)
                    ELSE h1
          IN IF ~Ok(h2) THEN h2 ELSE [h2 EXCEPT !.input[c] = NULL]
     ELSE IF HasEvaluate(c)
     THEN LET h1 == [h0 EXCEPT !.gates = Filter(@, c)]
              h2 == forEachRemoveOutput(h1, h1.inputs[c], 1, c)
          IN IF ~Ok(h2) THEN h2
             ELSE LET h3 == [h2 EXCEPT !.inputs[c] = <<>>]
                      h4 == forEachRemoveInput(h3, h3.outputs[c], 1, c)
                  IN IF ~Ok(h4) THEN h4 ELSE [h4 EXCEPT !.outputs[c] = <<>>]
     ELSE h0

\* Simulation.connect without the test that both components were added.
connectUnregistered(h, s, t) ==
  LET h1 == IF HasAddOutput(s) /\ HasAddInput(t)
            THEN addOutput(h, s, t, MaxCallDepth)
            ELSE [h EXCEPT !.reported = TRUE]
  IN IF ~Ok(h1) THEN h1 ELSE propagate(h1)

\* Simulation.connect(sourceComponent, targetComponent)
connect(h, s, t) ==
  IF ~Includes(h.components, s) \/ ~Includes(h.components, t)
  THEN [h EXCEPT !.reported = TRUE]
  ELSE LET h1 == IF HasAddOutput(s) /\ HasAddInput(t)
                 THEN addOutput(h, s, t, MaxCallDepth)
                 ELSE [h EXCEPT !.reported = TRUE]
       IN IF ~Ok(h1) THEN h1 ELSE propagate(h1)

\* Simulation.disconnect(sourceComponent, targetComponent)
disconnect(h, s, t) ==
  LET h1 == IF HasRemoveOutput(s)
            THEN removeOutput(h, s, t, MaxCallDepth)
            ELSE [h EXCEPT !.reported = TRUE]
  IN IF ~Ok(h1) THEN h1 ELSE propagate(h1)

\* InputPoint.setValue(newValue) without the test of newValue.
setValueUnchecked(h, i, newValue) == [h EXCEPT !.value[i] = newValue]

\* InputPoint.setValue(newValue)
setValue(h, i, newValue) ==
  IF newValue = HIGH \/ newValue = LOW
  THEN [h EXCEPT !.value[i] = newValue]
  ELSE [h EXCEPT !.reported = TRUE]

\* InputPoint.toggle() with HIGH in both branches.
toggleToHigh(h, i) == [h EXCEPT !.value[i] = HIGH]

\* InputPoint.toggle()
toggle(h, i) == [h EXCEPT !.value[i] = IF @ = HIGH THEN LOW ELSE HIGH]

\* --------------------------------------------------- getCircuitState
\* The value of a call that returns no state object.
NoState == [inputs |-> <<>>, gates |-> <<>>, outputs |-> <<>>,
            connections |-> <<>>, shared |-> {}]

\* comp.outputs: the field exists on input points and gates.
HasOutputsField(n) == n \in InputNames \cup GateNames

\* comp.outputs.forEach(out_conn => state.connections.push(...))
outputConnections(h, comp) ==
  IF HasOutputsField(comp)
  THEN [k \in 1..Len(h.outputs[comp]) |->
          [from |-> name(comp), to |-> name(h.outputs[comp][k])]]
  ELSE <<>>

\* if (comp.constructor.name === 'OutputPoint' && comp.input) push(...)
inputConnection(h, comp) ==
  IF Kind(comp) = "OutputPoint" /\ h.input[comp] # NULL
  THEN << [from |-> name(h.input[comp]), to |-> name(comp)] >>
  ELSE <<>>

\* this.components.forEach(comp => ...), from the k-th component on
RECURSIVE pushConnections(_, _)
pushConnections(h, k) ==
  IF k > Len(h.components) THEN <<>>
  ELSE outputConnections(h, h.components[k])
       \o inputConnection(h, h.components[k])
       \o pushConnections(h, k + 1)

\* The first test of the findIndex callback: c and conn are the same pair.
SamePair(c, conn) == c.from = conn.from /\ c.to = conn.to
\* The start of its second test: c is conn reversed.  The test goes on to
\* read comp, which is not defined in the callback: a ReferenceError.
ReversedPair(c, conn) == c.to = conn.from /\ c.from = conn.to

\* self.findIndex(...) for conn: the index of the first entry that is the
\* same pair (conn itself at the latest).
findIndex(self, conn) ==
  CHOOSE j \in 1..Len(self) :
    /\ SamePair(self[j], conn)
    /\ \A i \in 1..(j - 1) : ~SamePair(self[i], conn)

\* findIndex meets a reversed pair before it meets the same pair.
findIndexThrows(self, conn) ==
  \E i \in 1..(findIndex(self, conn) - 1) : ReversedPair(self[i], conn)

\* state.connections.filter((conn, index, self) => index === findIndex)
RECURSIVE filterConnections(_, _)
filterConnections(self, index) ==
  IF index > Len(self) THEN <<>>
  ELSE (IF findIndex(self, self[index]) = index
        THEN << self[index] >> ELSE <<>>)
       \o filterConnections(self, index + 1)

\* A state object whose inputs entry is this.inputPoints itself.
sharedArraysInputPoints(h) == {"inputPoints"}

\* The engine arrays that the returned state shares with the Simulation:
\* none, map and filter build new arrays and the entries are new objects.
sharedArrays(h) == {}

\* Simulation.getCircuitState()
getCircuitState(h) ==
  LET conns == pushConnections(h, 1)
  IN IF \E k \in 1..Len(conns) : findIndexThrows(conns, conns[k])
     THEN Throw(h, "ReferenceError")
     ELSE [h EXCEPT !.state =
             [inputs |-> [k \in 1..Len(h.inputPoints) |->
                            [name |-> name(h.inputPoints[k]),
                             value |-> getOutput(h, h.inputPoints[k])]],
              gates |-> [k \in 1..Len(h.gates) |->
                           [name |-> name(h.gates[k]),
                            output |-> getOutput(h, h.gates[k]),
                            inputs |-> [j \in 1..Len(h.inputs[h.gates[k]]) |->
                                          name(h.inputs[h.gates[k]][j])]]],
              outputs |-> [k \in 1..Len(h.outputPoints) |->
                             [name |-> name(h.outputPoints[k]),
                              value |-> h.value[h.outputPoints[k]]]],
              connections |-> filterConnections(conns, 1),
              shared |-> sharedArrays(h)]]

\* The caller empties one array of a state object it was given
\* (state[f].length = 0): an engine array is emptied with it if shared.
ArrayOf(f) ==
  CASE f = "inputs" -> "inputPoints"
    [] f = "gates" -> "gates"
    [] f = "outputs" -> "outputPoints"
    [] f = "connections" -> "components"
mutateState(h, st, f) ==
  IF ArrayOf(f) \notin st.shared THEN h
  ELSE CASE f = "inputs" -> [h EXCEPT !.inputPoints = <<>>]
         [] f = "gates" -> [h EXCEPT !.gates = <<>>]
         [] f = "outputs" -> [h EXCEPT !.outputPoints = <<>>]
         [] f = "connections" -> [h EXCEPT !.components = <<>>]

\* ------------------------------------------------------------ state machine
\* The program state as a heap record, at the start of a call.
Heap ==
  [components |-> components, inputPoints |-> inputPoints,
   outputPoints |-> outputPoints, gates |-> gates,
   outputs |-> outputs, inputs |-> inputs, input |-> input,
   value |-> value, outputValue |-> outputValue,
   err |-> "none", reported |-> FALSE, passes |-> 0, calls |-> 0,
   state |-> NoState]

\* The link fields of freshly constructed node objects.
NoLinks == [outputs |-> [n \in Universe |-> <<>>],
            inputs |-> [n \in GateNames |-> <<>>],
            input |-> [n \in OutputNames |-> NULL]]

\* new Simulation(), new InputPoint(name, initialState), new OutputPoint(name),
\* new AndGate(name), new NotGate(name), new NAndGate(name, NumInputs)
Init ==
  /\ nodes \in Circuits
  /\ components = <<>>
  /\ inputPoints = <<>>
  /\ outputPoints = <<>>
  /\ gates = <<>>
  /\ outputs = NoLinks.outputs
  /\ inputs = NoLinks.inputs
  /\ input = NoLinks.input
  /\ value \in [InputNames \cup OutputNames -> {LOW, HIGH}]
  /\ \A n \in OutputNames : value[n] = LOW
  /\ \A n \in InputNames \ nodes : value[n] = LOW
  /\ outputValue = [n \in GateNames |-> LOW]
  /\ last = [op |-> "new", a |-> NULL, b |-> NULL, v |-> LOW, err |-> "none",
             reported |-> FALSE, passes |-> 0, calls |-> 0, paired |-> FALSE,
             follows |-> "", state |-> NoState]
  /\ pre = NoLinks

\* The link fields of all node objects.
Links == [outputs |-> outputs, inputs |-> inputs, input |-> input]

\* The state a call leaves behind.  last records the call and how it ended;
\* last.paired marks a disconnect that directly follows a connect of the
\* same pair, and pre keeps the link fields from before a connect, through
\* the connect and through such a disconnect.  last.follows names the call
\* before a propagate when that call was a propagate or a disconnect, and
\* the call before a toggle when that was a toggle of the same input point.
\* last.v is the argument of a setValue, the value an input point held
\* before a toggle and the value the first registered output point held
\* before a propagate.  last.state is the object getCircuitState returned.
Return(h, op, a, b, v) ==
  /\ components' = h.components
  /\ inputPoints' = h.inputPoints
  /\ outputPoints' = h.outputPoints
  /\ gates' = h.gates
  /\ outputs' = h.outputs
  /\ inputs' = h.inputs
  /\ input' = h.input
  /\ value' = h.value
  /\ outputValue' = h.outputValue
  /\ LET paired == op = "disconnect" /\ last.op = "connect"
                    /\ last.a = a /\ last.b = b
         follows == IF op = "propagate" /\ last.op \in {"propagate", "disconnect"}
                    THEN last.op
                    ELSE IF op = "toggle" /\ last.op = "toggle" /\ last.a = a
                    THEN last.op ELSE ""
     IN /\ last' = [op |-> op, a |-> a, b |-> b, v |-> v, err |-> h.err,
                    reported |-> h.reported, passes |-> h.passes,
                    calls |-> h.calls, paired |-> paired,
                    follows |-> follows, state |-> h.state]
        /\ pre' = IF op = "connect" THEN Links
                  ELSE IF paired THEN pre
                  ELSE NoLinks
  /\ UNCHANGED nodes

AddComponent(c) == Return(addComponent(Heap, c), "add", c, NULL, LOW)
RemoveComponent(c) == Return(removeComponent(Heap, c), "remove", c, NULL, LOW)
Connect(s, t) == Return(connect(Heap, s, t), "connect", s, t, LOW)
Disconnect(s, t) == Return(disconnect(Heap, s, t), "disconnect", s, t, LOW)
Propagate ==
  Return(propagate(Heap), "propagate", NULL, NULL,
         IF outputPoints = <<>> THEN LOW ELSE value[outputPoints[1]])
SetValue(i, v) == Return(setValue(Heap, i, v), "setValue", i, NULL, v)
Toggle(i) == Return(toggle(Heap, i), "toggle", i, NULL, value[i])

Next ==
  \/ \E c \in nodes : AddComponent(c)
  \/ \E c \in nodes : RemoveComponent(c)
  \/ \E s \in nodes, t \in nodes : Connect(s, t)
  \/ \E s \in nodes, t \in nodes : Disconnect(s, t)
  \/ Propagate
  \/ \E i \in nodes \cap InputNames, v \in {LOW, HIGH, 2} : SetValue(i, v)
  \/ \E i \in nodes \cap InputNames : Toggle(i)

Spec == Init /\ [][Next]_vars

\* Direct calls of node methods, as the unit tests of io.js and gates.js make
\* them: target.addInput(source) and gate.evaluate().
AddInput(t, s) == Return(addInput(Heap, t, s, MaxCallDepth), "addInput", t, s, LOW)
Evaluate(g) == Return(evaluate(Heap, g), "evaluate", g, NULL, LOW)

NextNode ==
  \/ Next
  \/ \E t \in nodes \cap (GateNames \cup OutputNames),
        s \in nodes \cap (InputNames \cup GateNames) : AddInput(t, s)
  \/ \E g \in nodes \cap GateNames : Evaluate(g)

\* Reads: getCircuitState(), a node's getOutput() (getValue() of an output
\* point), and a caller that changes the state object it was given.
GetCircuitState == Return(getCircuitState(Heap), "getCircuitState", NULL, NULL, LOW)
GetOutput(n) == Return(Heap, "getOutput", n, NULL, getOutput(Heap, n))
MutateState(f) ==
  /\ last.op = "getCircuitState" /\ last.err = "none"
  /\ Return(mutateState(Heap, last.state, f), "mutate", f, NULL, LOW)

\* The node objects of the circuits that are read.
StateCircuits ==
  { {"InputA", "InputB", "OutputX"},
    {"InputA", "InputA2", "And1"},
    {"Not1", "And1"} }

InitState == Init /\ nodes \in StateCircuits

NextState ==
  \/ NextNode
  \/ GetCircuitState
  \/ \E n \in nodes : GetOutput(n)
  \/ \E f \in {"inputs", "gates", "outputs", "connections"} : MutateState(f)

SpecState == InitState /\ [][NextState]_vars

\* The node objects the direct calls are made on.
NodeCircuits ==
  { {"InputA", "InputB", "Not1"},
    {"InputA", "InputB", "And1"},
    {"InputA", "InputB", "NAnd1"},
    {"InputA", "InputB", "OutputX"},
    {"Not1", "And1"} }

InitNode == Init /\ nodes \in NodeCircuits

SpecNode == InitNode /\ [][NextNode]_vars

\* ------------------------------------------------------------- properties
RegistryOps == {"add", "remove", "connect", "disconnect", "propagate"}

Registered(n) == Includes(components, n)

\* The downstream listeners a node lists, and the upstream sources it lists.
Listeners(a) == IF HasAddOutput(a) THEN Range(outputs[a]) ELSE {}
Sources(b) ==
  IF IsGate(b) THEN Range(inputs[b])
  ELSE IF b \in OutputNames /\ input[b] # NULL THEN {input[b]}
  ELSE {}

Symmetry == \A a \in nodes, b \in nodes : b \in Listeners(a) <=> a \in Sources(b)

\* C1: after every Registry operation that completes, B is a listener of A
\* if and only if A is a source of B.
C1_SymmetryAfterRegistryOp ==
  (last.op \in RegistryOps /\ last.err = "none") => Symmetry

\* remove(c) has left nothing of c behind.
Removed(c) ==
  /\ ~Includes(components, c)
  /\ ~Includes(inputPoints, c)
  /\ ~Includes(outputPoints, c)
  /\ ~Includes(gates, c)
  /\ \A n \in Range(components) : c \notin Sources(n) /\ c \notin Listeners(n)
  /\ Sources(c) = {}
  /\ Listeners(c) = {}

\* C2: remove of a registered node that has sources or listeners leaves the
\* node in no registry list, in no registered node's link fields, and with
\* empty link fields of its own.
C2_RemovalComplete ==
  [][\A c \in nodes :
       (/\ RemoveComponent(c)
        /\ Registered(c)
        /\ (Sources(c) # {} \/ Listeners(c) # {}))
       => Removed(c)']_vars

\* C3: connect(source, gate) of registered nodes, the gate below maxInputs,
\* returns with gate in source's listener list and source in gate's source
\* list, each appended if it was absent, after a propagation pass.
C3_ConnectGateLinks ==
  [][\A s \in nodes, g \in nodes :
       (/\ Connect(s, g)
        /\ Registered(s) /\ Registered(g)
        /\ HasAddOutput(s) /\ IsGate(g)
        /\ Len(inputs[g]) < maxInputs(g))
       => (/\ last'.err = "none"
           /\ Includes(outputs'[s], g)
           /\ Includes(inputs'[g], s)
           /\ (~Includes(outputs[s], g) => outputs'[s] = Append(outputs[s], g))
           /\ (~Includes(inputs[g], s) => inputs'[g] = Append(inputs[g], s))
           /\ last'.passes >= 1)]_vars

\* C4: connect(source, sink) of registered nodes, the sink's slot empty,
\* returns with the slot holding source, sink in source's listener list and
\* the sink's cached value equal to source's output.
C4_ConnectSinkLinks ==
  [][\A s \in nodes, k \in nodes :
       (/\ Connect(s, k)
        /\ Registered(s) /\ Registered(k)
        /\ HasAddOutput(s) /\ k \in OutputNames
        /\ input[k] = NULL)
       => (/\ last'.err = "none"
           /\ input'[k] = s
           /\ Includes(outputs'[s], k)
           /\ value'[k] = (IF IsGate(s) THEN outputValue'[s] ELSE value'[s]))]_vars

\* C5: connect(source, gate) to a gate that holds maxInputs other sources
\* reports an error and changes no link field.
C5_FullGateRejects ==
  [][\A s \in nodes, g \in nodes :
       (/\ Connect(s, g)
        /\ Registered(s) /\ Registered(g)
        /\ HasAddOutput(s) /\ IsGate(g)
        /\ Len(inputs[g]) = maxInputs(g)
        /\ ~Includes(inputs[g], s))
       => (/\ last'.reported
           /\ outputs' = outputs /\ inputs' = inputs /\ input' = input)]_vars

\* C6: no gate ever holds more sources than its maxInputs.
C6_Capacity == \A g \in GateNames : Len(inputs[g]) <= maxInputs(g)

\* A connect to a full gate has just been turned down by addInput.
C6_Witness ==
  /\ last.op = "connect"
  /\ last.err = "none"
  /\ last.reported
  /\ Registered(last.a) /\ Registered(last.b)
  /\ HasAddOutput(last.a) /\ IsGate(last.b)
  /\ Len(inputs[last.b]) = maxInputs(last.b)
  /\ ~Includes(inputs[last.b], last.a)

\* C7: connect(s2, sink) to a sink whose slot holds another source s1 returns
\* with the slot holding s2, sink in s2's listener list and sink no longer
\* in s1's listener list.
C7_SinkReplaces ==
  [][\A s2 \in nodes, k \in nodes :
       (/\ Connect(s2, k)
        /\ Registered(s2) /\ Registered(k)
        /\ HasAddOutput(s2) /\ k \in OutputNames
        /\ input[k] # NULL /\ input[k] # s2)
       => (/\ last'.err = "none"
           /\ input'[k] = s2
           /\ Includes(outputs'[s2], k)
           /\ ~Includes(outputs'[input[k]], k))]_vars

\* C8: disconnect(source, target) of a linked pair returns with target out of
\* source's listener list and source out of target's sources, after a
\* propagation pass.
C8_DisconnectUnlinks ==
  [][\A s \in nodes, t \in nodes :
       (/\ Disconnect(s, t)
        /\ t \in Listeners(s) /\ s \in Sources(t))
       => (/\ last'.err = "none"
           /\ t \notin Listeners(s)'
           /\ s \notin Sources(t)'
           /\ last'.passes >= 1)]_vars

\* C9: every connect, disconnect and remove call returns normally.
C9_CallsReturn ==
  last.op \in {"connect", "disconnect", "remove"} => last.err = "none"

\* C10: connect(a, b) of registered, unlinked nodes directly followed by
\* disconnect(a, b) leaves every link field as it was before the connect,
\* and, a propagation having run, the target's cached output at LOW.
C10_ConnectDisconnectRestores ==
  (/\ last.op = "disconnect"
   /\ last.paired
   /\ Registered(last.a) /\ Registered(last.b)
   /\ HasAddOutput(last.a) /\ HasAddInput(last.b)
   /\ ~Includes(pre.outputs[last.a], last.b)
   /\ IF IsGate(last.b) THEN ~Includes(pre.inputs[last.b], last.a)
      ELSE pre.input[last.b] # last.a)
  => (/\ Links = pre
      /\ last.err = "none"
      /\ last.passes >= 1
      /\ (IF IsGate(last.b) THEN outputValue[last.b] ELSE value[last.b]) = LOW)

\* -------------------------------------------------- the example circuits
\* The circuits that the tests of the Simulation and the user interface set
\* up before they change inputs: a list of calls on a new Simulation.  Each
\* call is made whatever the outcome of the one before.
Op(op, a, b) == [op |-> op, a |-> a, b |-> b]

\* InputA -> Not1, Not1 + InputB -> And1, And1 -> OutputX
NotAndNodes == {"InputA", "InputB", "Not1", "And1", "OutputX"}
NotAndScript ==
  << Op("add", "InputA", NULL), Op("add", "InputB", NULL),
     Op("add", "Not1", NULL), Op("add", "And1", NULL),
     Op("add", "OutputX", NULL),
     Op("connect", "InputA", "Not1"), Op("connect", "Not1", "And1"),
     Op("connect", "InputB", "And1"), Op("connect", "And1", "OutputX"),
     Op("propagate", NULL, NULL) >>

\* InputA + InputB -> And1 -> OutputX
AndNodes == {"InputA", "InputB", "And1", "OutputX"}
AndScript ==
  << Op("add", "InputA", NULL), Op("add", "InputB", NULL),
     Op("add", "And1", NULL), Op("add", "OutputX", NULL),
     Op("connect", "InputA", "And1"), Op("connect", "InputB", "And1"),
     Op("connect", "And1", "OutputX") >>

\* InputA -> Not1 -> the output point
NotNodes == {"InputA", "Not1", "OutputX"}
NotScript ==
  << Op("add", "InputA", NULL), Op("add", "Not1", NULL),
     Op("add", "OutputX", NULL),
     Op("connect", "InputA", "Not1"), Op("connect", "Not1", "OutputX") >>

\* The same, the output point linked by its own addInput.
NotScriptAddInput ==
  << Op("add", "InputA", NULL), Op("add", "Not1", NULL),
     Op("add", "OutputX", NULL),
     Op("connect", "InputA", "Not1"), Op("addInput", "OutputX", "Not1") >>

Scenarios ==
  { [nodes |-> NotAndNodes, script |-> NotAndScript],
    [nodes |-> AndNodes, script |-> AndScript],
    [nodes |-> NotNodes, script |-> NotScript],
    [nodes |-> NotNodes, script |-> NotScriptAddInput] }

\* One call of a script.
Call(h, c) ==
  LET h0 == [h EXCEPT !.err = "none"]
  IN CASE c.op = "add" -> addComponent(h0, c.a)
       [] c.op = "connect" -> connect(h0, c.a, c.b)
       [] c.op = "addInput" -> addInput(h0, c.a, c.b, MaxCallDepth)
       [] c.op = "propagate" -> propagate(h0)

\* The calls of a script from the k-th on.
RECURSIVE Run(_, _, _)
Run(h, script, k) ==
  IF k > Len(script) THEN h ELSE Run(Call(h, script[k]), script, k + 1)

\* A new Simulation and new node objects, the input points holding v.
NewHeap(v) ==
  [components |-> <<>>, inputPoints |-> <<>>,
   outputPoints |-> <<>>, gates |-> <<>>,
   outputs |-> NoLinks.outputs, inputs |-> NoLinks.inputs,
   input |-> NoLinks.input,
   value |-> v, outputValue |-> [n \in GateNames |-> LOW],
   err |-> "none", reported |-> FALSE, passes |-> 0, calls |-> 0,
   state |-> NoState]

InitCircuit ==
  \E sc \in Scenarios :
    \E v \in [InputNames \cup OutputNames -> {LOW, HIGH}] :
      /\ \A n \in OutputNames : v[n] = LOW
      /\ \A n \in InputNames \ sc.nodes : v[n] = LOW
      /\ nodes = sc.nodes
      /\ LET h == Run(NewHeap(v), sc.script, 1)
         IN /\ components = h.components
            /\ inputPoints = h.inputPoints
            /\ outputPoints = h.outputPoints
            /\ gates = h.gates
            /\ outputs = h.outputs
            /\ inputs = h.inputs
            /\ input = h.input
            /\ value = h.value
            /\ outputValue = h.outputValue
      /\ last = [op |-> "new", a |-> NULL, b |-> NULL, v |-> LOW,
                 err |-> "none", reported |-> FALSE, passes |-> 0,
                 calls |-> 0, paired |-> FALSE, follows |-> "",
                 state |-> NoState]
      /\ pre = NoLinks

\* What the tests and the user interface do with a circuit they have set up.
NextCircuit ==
  \/ \E i \in nodes \cap InputNames, v \in {LOW, HIGH, 2} : SetValue(i, v)
  \/ \E i \in nodes \cap InputNames : Toggle(i)
  \/ Propagate
  \/ \E s \in nodes \cap InputNames, t \in nodes \cap NotNames : Disconnect(s, t)

SpecCircuit == InitCircuit /\ [][NextCircuit]_vars

\* The link fields are those the set-up left.
AsBuilt ==
  \E sc \in Scenarios :
    /\ sc.nodes = nodes
    /\ LET h == Run(NewHeap([n \in InputNames \cup OutputNames |-> LOW]),
                    sc.script, 1)
       IN Links = [outputs |-> h.outputs, inputs |-> h.inputs,
                   input |-> h.input]

\* The registry lists, and the values the nodes hold.
Registry == <<components, inputPoints, outputPoints, gates>>
Values == <<value, outputValue>>

\* C11: connect with an endpoint that is not in components reports an error
\* and changes no link field, no cached value and no registry list, and runs
\* no propagation pass.  (last' names the call a step made and its arguments.)
C11_ConnectUnregistered ==
  [][(/\ last'.op = "connect"
      /\ (~Registered(last'.a) \/ ~Registered(last'.b)))
     => (/\ last'.reported
         /\ last'.err = "none"
         /\ Links' = Links
         /\ Values' = Values
         /\ Registry' = Registry
         /\ last'.calls = 0 /\ last'.passes = 0)]_vars

\* connect has just turned down a pair that it would have linked had both
\* been registered: a source that can take listeners, a gate with room.
C11_Witness ==
  /\ last.op = "connect"
  /\ (~Registered(last.a) \/ ~Registered(last.b))
  /\ last.reported /\ last.calls = 0
  /\ HasAddOutput(last.a) /\ IsGate(last.b)
  /\ Len(inputs[last.b]) < maxInputs(last.b)
  /\ ~Includes(outputs[last.a], last.b)

\* C12: connect of two registered nodes whose source cannot take listeners
\* or whose target cannot take a source reports an error and changes no link
\* field, no registry list, no gate output and no sink value.
C12_ConnectIncapable ==
  [][(/\ last'.op = "connect"
      /\ Registered(last'.a) /\ Registered(last'.b)
      /\ (~HasAddOutput(last'.a) \/ ~HasAddInput(last'.b)))
     => (/\ last'.reported
         /\ Links' = Links
         /\ Registry' = Registry
         /\ Values' = Values)]_vars

\* The registry list that tracks nodes of c's kind.
Tracked(c) ==
  CASE Kind(c) = "InputPoint"  -> "inputPoints"
    [] Kind(c) = "OutputPoint" -> "outputPoints"
    [] OTHER                   -> "gates"

\* C13: after add of a node that was not present, the node is in components
\* and in exactly the list of its kind (input points, gates of every type,
\* output points); after remove it is in none of the four lists.
C13_AddRemoveTracked ==
  [][/\ (last'.op = "add" /\ ~Registered(last'.a))
        => (/\ Includes(components', last'.a)
            /\ Includes(inputPoints', last'.a) <=> Tracked(last'.a) = "inputPoints"
            /\ Includes(outputPoints', last'.a) <=> Tracked(last'.a) = "outputPoints"
            /\ Includes(gates', last'.a) <=> Tracked(last'.a) = "gates")
     /\ (last'.op = "remove")
        => (/\ ~Includes(components', last'.a)
            /\ ~Includes(inputPoints', last'.a)
            /\ ~Includes(outputPoints', last'.a)
            /\ ~Includes(gates', last'.a))]_vars

\* C14: add of a node that is already present leaves components and the
\* three lists unchanged; add of another node object that bears the display
\* name of a present node appends it as a node of its own, and add touches
\* no link field, so a node without links is added without links.
C14_AddIdempotentByIdentity ==
  [][/\ (last'.op = "add" /\ Registered(last'.a)) => Registry' = Registry
     /\ (/\ last'.op = "add" /\ ~Registered(last'.a)
         /\ \E n \in Range(components) : name(n) = name(last'.a))
        => (/\ components' = Append(components, last'.a)
            /\ Links' = Links)]_vars

\* The second input point named InputA has just been added next to the
\* first: both are in components and in inputPoints, the new one without
\* links.
C14_Witness ==
  /\ last.op = "add" /\ last.a = "InputA2"
  /\ Range(components) = {"InputA", "InputA2"}
  /\ Len(components) = 2 /\ Len(inputPoints) = 2
  /\ outputs["InputA2"] = <<>>

\* C15: remove of a node that is not in components changes nothing: not the
\* registry lists, not the node's own link fields and cached value, not
\* the link fields of any other node.
C15_RemoveAbsentNoOp ==
  [][(last'.op = "remove" /\ ~Registered(last'.a))
     => (/\ Registry' = Registry
         /\ Links' = Links
         /\ Values' = Values)]_vars

\* The nodes a signal leaving the nodes of S reaches in at most k links,
\* following both the listener lists and the source fields.
RECURSIVE Downstream(_, _)
Downstream(S, k) ==
  IF k = 0 THEN S
  ELSE Downstream(S \cup {b \in nodes : \E a \in S : b \in Listeners(a)
                                                   \/ a \in Sources(b)},
                  k - 1)

\* No node is reached by a signal that leaves it.
Acyclic ==
  \A a \in nodes :
    \A b \in nodes :
      (b \in Listeners(a) \/ a \in Sources(b))
      => a \notin Downstream({b}, Cardinality(nodes))

\* C16: when propagate has returned on an acyclic graph, every registered
\* gate's cached output is what its evaluate computes from its sources'
\* current outputs, and every registered sink with a source holds that
\* source's output.
C16_PropagateFixedPoint ==
  (last.op = "propagate" /\ last.err = "none" /\ Acyclic)
  => (/\ \A g \in Range(components) \cap GateNames :
           evaluate(Heap, g).outputValue[g] = outputValue[g]
      /\ \A o \in Range(components) \cap OutputNames :
           input[o] # NULL => value[o] = getOutput(Heap, input[o]))

\* C17: propagate returns without an error after at most (number of gates
\* in the gates list + 1) passes, on every reachable graph, cyclic ones
\* included; so does the propagate that connect and disconnect run.
C17_PropagateBounded ==
  /\ last.op = "propagate" => (last.err = "none" /\ last.calls = 1)
  /\ last.calls >= 1 => last.passes <= Len(gates) + 1

\* propagate has returned on a graph with a feedback cycle through a
\* registered gate.
C17_Witness ==
  /\ last.op = "propagate" /\ last.err = "none" /\ last.passes >= 1
  /\ ~Acyclic
  /\ \E g \in Range(components) \cap GateNames : g \in Sources(g)

C19_ExampleCircuits ==
  (last.op = "propagate" /\ AsBuilt)
  => (/\ nodes = NotAndNodes
         => (value["OutputX"] = HIGH
             <=> (value["InputA"] = LOW /\ value["InputB"] = HIGH))
      /\ nodes = AndNodes
         => (value["OutputX"] = HIGH
             <=> (value["InputA"] = HIGH /\ value["InputB"] = HIGH))
      /\ nodes = NotNodes
         => (value["OutputX"] = HIGH <=> value["InputA"] = LOW))

SourceOutputs(g) == [k \in 1..Len(inputs[g]) |-> getOutput(Heap, inputs[g][k])]

\* C21: AndGate.evaluate() with two connected sources sets the cached output
\* to HIGH exactly when both sources output HIGH, and with fewer than two
\* connected sources sets it to LOW whatever the connected source outputs.
C21_AndEvaluate ==
  [][(last'.op = "evaluate" /\ Kind(last'.a) = "AndGate")
     => LET g == last'.a
            in == SourceOutputs(g)
        IN IF Len(in) = 2
           THEN outputValue'[g] = HIGH <=> (in[1] = HIGH /\ in[2] = HIGH)
           ELSE Len(in) < 2 /\ outputValue'[g] = LOW]_vars

\* evaluate has just set an AND gate with two HIGH sources to HIGH.
C21_Witness ==
  /\ last.op = "evaluate" /\ Kind(last.a) = "AndGate"
  /\ Len(inputs[last.a]) = 2
  /\ \A k \in 1..2 : inputs[last.a][k] \in InputNames
                      /\ value[inputs[last.a][k]] = HIGH
  /\ outputValue[last.a] = HIGH

\* C22: NotGate.evaluate() with one connected source sets the cached output
\* to HIGH exactly when the source outputs LOW, and with no connected source
\* sets it to LOW.
C22_NotEvaluate ==
  [][(last'.op = "evaluate" /\ Kind(last'.a) = "NotGate")
     => LET g == last'.a
            in == SourceOutputs(g)
        IN IF Len(in) = 1
           THEN outputValue'[g] = HIGH <=> in[1] = LOW
           ELSE Len(in) = 0 /\ outputValue'[g] = LOW]_vars

\* evaluate has just set a NOT gate with a LOW input point as source to HIGH.
C22_Witness ==
  /\ last.op = "evaluate" /\ Kind(last.a) = "NotGate"
  /\ Len(inputs[last.a]) = 1
  /\ inputs[last.a][1] \in InputNames /\ value[inputs[last.a][1]] = LOW
  /\ outputValue[last.a] = HIGH

\* C23: NAndGate.evaluate() with no connected source sets the cached output
\* to LOW; with k connected sources, 1 <= k <= numInputs, it sets it to
\* HIGH exactly when every connected source outputs HIGH.
C23_NAndEvaluate ==
  [][(last'.op = "evaluate" /\ Kind(last'.a) = "NAndGate")
     => LET g == last'.a
            in == SourceOutputs(g)
        IN /\ Len(in) <= NumInputs
           /\ IF Len(in) = 0
              THEN outputValue'[g] = LOW
              ELSE outputValue'[g] = HIGH
                   <=> \A k \in 1..Len(in) : in[k] = HIGH]_vars

\* evaluate has just set a generalized AND gate to LOW because its second
\* source is LOW while its first is HIGH.
C23_Witness ==
  /\ last.op = "evaluate" /\ Kind(last.a) = "NAndGate"
  /\ Len(inputs[last.a]) >= 2
  /\ inputs[last.a][1] \in InputNames /\ value[inputs[last.a][1]] = HIGH
  /\ inputs[last.a][2] \in InputNames /\ value[inputs[last.a][2]] = LOW
  /\ outputValue[last.a] = LOW

\* C24: setValue(v) with v HIGH or LOW makes v the input point's value; with
\* any other v it reports an error and leaves the value and every other
\* field as they were.
C24_SetValue ==
  [][last'.op = "setValue"
     => /\ last'.err = "none"
        /\ IF last'.v \in {HIGH, LOW}
           THEN value' = [value EXCEPT ![last'.a] = last'.v]
           ELSE last'.reported /\ value' = value
        /\ outputValue' = outputValue
        /\ Links' = Links
        /\ Registry' = Registry]_vars

\* setValue has just refused a value that is neither HIGH nor LOW, and the
\* input point still holds HIGH.
C24_Witness ==
  /\ last.op = "setValue" /\ last.v \notin {HIGH, LOW}
  /\ last.reported
  /\ value[last.a] = HIGH

\* C25: toggle turns LOW into HIGH and HIGH into LOW, a toggle that directly
\* follows a toggle of the same input point restores the value held before
\* the first (last.v of a toggle), and toggle changes no link field.
C25_Toggle ==
  [][last'.op = "toggle"
     => LET i == last'.a
        IN /\ value[i] = LOW => value'[i] = HIGH
           /\ value[i] = HIGH => value'[i] = LOW
           /\ \A n \in DOMAIN value : n # i => value'[n] = value[n]
           /\ (last.op = "toggle" /\ last.a = i) => value'[i] = last.v
           /\ Links' = Links]_vars

\* Two toggles of a linked input point in a row have brought it back to
\* HIGH.
C25_Witness ==
  /\ last.op = "toggle" /\ last.follows = "toggle" /\ last.v = LOW
  /\ value[last.a] = HIGH
  /\ outputs[last.a] # <<>>

\* C26: a gate's cached output changes only in a call that runs evaluate
\* (evaluate itself, or propagate, alone or inside connect and disconnect):
\* setValue, toggle, add, remove, getOutput and getCircuitState leave every
\* gate's cached output as it was, and add and remove run no propagation.
C26_OutputOnlyByEvaluate ==
  [][/\ last'.op \in {"setValue", "toggle", "add", "remove", "getOutput",
                      "getCircuitState"}
        => outputValue' = outputValue
     /\ outputValue' # outputValue
        => last'.op \in {"evaluate", "propagate", "connect", "disconnect"}
     /\ last'.op \in {"add", "remove"}
        => (last'.calls = 0 /\ last'.passes = 0)]_vars

\* setValue has just left a gate's cached output behind its inputs: the
\* gate holds HIGH and evaluate would now give LOW.
C26_Witness ==
  /\ last.op = "setValue"
  /\ \E g \in Range(components) \cap GateNames :
       /\ Includes(inputs[g], last.a)
       /\ outputValue[g] = HIGH
       /\ evaluate(Heap, g).outputValue[g] = LOW

\* The links that exist: b is in a's listener list or a is a source of b.
ExistingLinks ==
  { l \in nodes \X nodes : l[2] \in Listeners(l[1]) \/ l[1] \in Sources(l[2]) }

\* C27: the state getCircuitState returns holds one (name, value) entry for
\* every registered input point, one entry with name, cached output and
\* source names in order for every registered gate, one (name, value) entry
\* for every registered output point, and one (from, to) connection for
\* every existing link, a link into an output point included.
C27_StateContent ==
  (last.op = "getCircuitState" /\ last.err = "none")
  => LET st == last.state
         reg == Range(components)
     IN /\ Len(st.inputs) = Cardinality(reg \cap InputNames)
        /\ \A n \in reg \cap InputNames :
             Includes(st.inputs, [name |-> name(n), value |-> value[n]])
        /\ Len(st.gates) = Cardinality(reg \cap GateNames)
        /\ \A g \in reg \cap GateNames :
             Includes(st.gates,
                      [name |-> name(g), output |-> outputValue[g],
                       inputs |-> [j \in 1..Len(inputs[g]) |->
                                     name(inputs[g][j])]])
        /\ Len(st.outputs) = Cardinality(reg \cap OutputNames)
        /\ \A n \in reg \cap OutputNames :
             Includes(st.outputs, [name |-> name(n), value |-> value[n]])
        /\ Len(st.connections) = Cardinality(ExistingLinks)
        /\ \A l \in ExistingLinks :
             Includes(st.connections,
                      [from |-> name(l[1]), to |-> name(l[2])])

RegisteredGates == Range(components) \cap GateNames

\* C29: a propagate call with G registered gates runs min(G + 1, k) passes,
\* k >= 2 being the first pass from the second on in which no gate's cached
\* output changed: at most G + 1 passes, at least two when there is a gate,
\* and fewer than G + 1 only when a pass found every gate's output equal
\* to what its evaluate computes; and the call starts no other propagate.
C29_PropagatePasses ==
  last.op = "propagate"
  => LET G == Cardinality(RegisteredGates)
     IN /\ last.calls = 1
        /\ last.passes <= G + 1
        /\ last.passes >= (IF G = 0 THEN 1 ELSE 2)
        /\ last.passes < G + 1
           => \A g \in RegisteredGates :
                evaluate(Heap, g).outputValue[g] = outputValue[g]

C31_StateNoError ==
  last.op = "getCircuitState" => last.err = "none"

\* An array that holds no element at two indexes.
NoDuplicates(s) == \A i, j \in 1..Len(s) : s[i] = s[j] => i = j

\* Before the last connect(a, b): b was in a.outputs, or a was in b.inputs
\* or was b.input.
LinkedBefore ==
  \/ Includes(pre.outputs[last.a], last.b)
  \/ IsGate(last.b) /\ Includes(pre.inputs[last.b], last.a)
  \/ last.b \in OutputNames /\ pre.input[last.b] = last.a

\* C32: connect(source, target) on a pair that is already linked leaves the
\* link fields of every node as they were, and in every reachable state no
\* outputs array and no inputs array of a gate holds the same node twice.
C32_ConnectIdempotent ==
  /\ (last.op = "connect" /\ LinkedBefore) => Links = pre
  /\ \A n \in nodes : /\ NoDuplicates(outputs[n])
                      /\ IsGate(n) => NoDuplicates(inputs[n])

\* A second connect of an input point to a gate that lists it: the link is
\* there on both sides, once, and the call ended without error.
C32_Witness ==
  /\ last.op = "connect" /\ last.err = "none"
  /\ last.a \in InputNames /\ IsGate(last.b)
  /\ Includes(pre.outputs[last.a], last.b)
  /\ Includes(pre.inputs[last.b], last.a)
  /\ Registered(last.a) /\ Registered(last.b)
  /\ last.b \in Listeners(last.a) /\ last.a \in Sources(last.b)

\* C33: propagate() leaves the registry lists, the link fields of every
\* node and the value of every input point as they were; it writes cached
\* gate outputs and output point values only.
C33_PropagateFrame ==
  [][last'.op = "propagate" =>
       /\ UNCHANGED Registry
       /\ UNCHANGED <<outputs, inputs, input>>
       /\ \A i \in InputNames : value'[i] = value[i]]_vars

\* A propagate() has changed the value of the registered output point from
\* LOW to HIGH, the value of its source.
C33_Witness ==
  /\ last.op = "propagate" /\ last.err = "none"
  /\ outputPoints # <<>>
  /\ last.v = LOW /\ value[outputPoints[1]] = HIGH
  /\ input[outputPoints[1]] # NULL
  /\ getOutput(Heap, input[outputPoints[1]]) = HIGH

\* C34: the lists inputPoints, gates and outputPoints are pairwise
\* disjoint, hold no node twice and hold only nodes of components; a node
\* that is not in components is in none of the three lists.
C34_TrackedSubsets ==
  /\ Range(inputPoints) \cap Range(gates) = {}
  /\ Range(inputPoints) \cap Range(outputPoints) = {}
  /\ Range(gates) \cap Range(outputPoints) = {}
  /\ NoDuplicates(inputPoints) /\ NoDuplicates(gates)
  /\ NoDuplicates(outputPoints) /\ NoDuplicates(components)
  /\ Range(inputPoints) \subseteq Range(components)
  /\ Range(gates) \subseteq Range(components)
  /\ Range(outputPoints) \subseteq Range(components)
  /\ \A n \in nodes : ~Registered(n) =>
        n \notin Range(inputPoints) \cup Range(gates) \cup Range(outputPoints)

\* An input point has been removed, a call that ended without error, while
\* another input point and an output point are still registered.
C34_Witness ==
  /\ last.op = "remove" /\ last.err = "none"
  /\ last.a \in InputNames /\ ~Registered(last.a)
  /\ inputPoints # <<>> /\ outputPoints # <<>>
  /\ Len(components) = Len(inputPoints) + Len(outputPoints)

TypeOK ==
  /\ nodes \in Circuits \cup {NotAndNodes, AndNodes}
  /\ Range(components) \subseteq nodes
  /\ last.err \in {"none", "TypeError", "RangeError", "ReferenceError"}

====
